---- MODULE Spec2Model ----
(***************************************************************************)
(* Model of the two PDF pipelines of the repository:                       *)
(*   Challenge_1a/process_pdfs_robust.py      (RobustPDFProcessor)         *)
(*   Challenge_1b/process_collections_minimal.py                           *)
(*                                            (MinimalCollectionProcessor) *)
(* A text is a sequence of one-character strings, so that len(), strip(),  *)
(* lower(), isdigit(), startswith() and the regular expressions are        *)
(* computed character by character, as Python computes them.              *)
(* Font sizes and bbox coordinates are whole points.  A heading confidence *)
(* is counted in tenths (3 stands for 0.3).                                *)
(***************************************************************************)
EXTENDS Integers, Sequences, FiniteSets, TLC

(***************************************************************************)
(* Bounds of the model.                                                    *)
(***************************************************************************)
MaxPages == 2
MaxSpans == 2

(***************************************************************************)
(* Characters and the str methods the code uses.                           *)
(***************************************************************************)
UpperCase == {"A","B","C","D","E","F","G","H","I","J","K","L","M",
              "N","O","P","Q","R","S","T","U","V","W","X","Y","Z"}

LowerCase == {"a","b","c","d","e","f","g","h","i","j","k","l","m",
              "n","o","p","q","r","s","t","u","v","w","x","y","z"}

Digit == {"0","1","2","3","4","5","6","7","8","9"}

Whitespace == {" ", "\t", "\n"}

LowerOf == [c \in UpperCase |->
    CASE c = "A" -> "a" [] c = "B" -> "b" [] c = "C" -> "c" [] c = "D" -> "d"
      [] c = "E" -> "e" [] c = "F" -> "f" [] c = "G" -> "g" [] c = "H" -> "h"
      [] c = "I" -> "i" [] c = "J" -> "j" [] c = "K" -> "k" [] c = "L" -> "l"
      [] c = "M" -> "m" [] c = "N" -> "n" [] c = "O" -> "o" [] c = "P" -> "p"
      [] c = "Q" -> "q" [] c = "R" -> "r" [] c = "S" -> "s" [] c = "T" -> "t"
      [] c = "U" -> "u" [] c = "V" -> "v" [] c = "W" -> "w" [] c = "X" -> "x"
      [] c = "Y" -> "y" [] c = "Z" -> "z"]

\* str.lower()
lower(t) ==
    SubSeq([i \in 1..Len(t) |-> IF t[i] \in UpperCase THEN LowerOf[t[i]] ELSE t[i]], 1, Len(t))

\* str.strip(): drops the leading and the trailing whitespace
strip(t) ==
    IF \A i \in 1..Len(t) : t[i] \in Whitespace THEN <<>>
    ELSE LET lo == CHOOSE i \in 1..Len(t) :
                       t[i] \notin Whitespace /\ \A j \in 1..(i - 1) : t[j] \in Whitespace
             hi == CHOOSE i \in 1..Len(t) :
                       t[i] \notin Whitespace /\ \A j \in (i + 1)..Len(t) : t[j] \in Whitespace
         IN  SubSeq(t, lo, hi)

\* str.isdigit()
isdigit(t) == Len(t) > 0 /\ \A i \in 1..Len(t) : t[i] \in Digit

\* str.startswith(p)
startswith(t, p) == Len(t) >= Len(p) /\ SubSeq(t, 1, Len(p)) = p

\* t[:n]
prefix(t, n) == IF Len(t) <= n THEN t ELSE SubSeq(t, 1, n)

\* t[i..j] lies in t and consists of characters of class C only
AllIn(t, i, j, C) == j <= Len(t) /\ \A k \in i..j : t[k] \in C

(***************************************************************************)
(* The five regular expressions of heading_patterns, as re.match applies   *)
(* them (anchored at the start of the text).                               *)
(***************************************************************************)
\* ^[A-Z][A-Z\s]{2,}$
MatchAllCaps(t) ==
    /\ Len(t) >= 3
    /\ t[1] \in UpperCase
    /\ AllIn(t, 2, Len(t), UpperCase \cup Whitespace)

\* ^\d+\.\s+[A-Z]
MatchNumbered(t) ==
    \E d \in 1..Len(t) : \E w \in 1..Len(t) :
        /\ d + 1 + w + 1 <= Len(t)
        /\ AllIn(t, 1, d, Digit)
        /\ t[d + 1] = "."
        /\ AllIn(t, d + 2, d + 1 + w, Whitespace)
        /\ t[d + 2 + w] \in UpperCase

\* ^[A-Z][a-z]+(?:\s+[A-Z][a-z]+)*$
RECURSIVE TitleWords(_, _)
TitleWords(t, i) ==
    /\ i + 1 <= Len(t)
    /\ t[i] \in UpperCase
    /\ \E j \in (i + 1)..Len(t) :
          /\ AllIn(t, i + 1, j, LowerCase)
          /\ \/ j = Len(t)
             \/ \E k \in (j + 1)..Len(t) :
                   /\ AllIn(t, j + 1, k, Whitespace)
                   /\ TitleWords(t, k + 1)

MatchTitleCase(t) == TitleWords(t, 1)

\* ^<word>\s+\d+   (word is Chapter or Section)
MatchWordNumber(t, word) ==
    /\ startswith(t, word)
    /\ \E w \in 1..Len(t) :
          /\ Len(word) + w + 1 <= Len(t)
          /\ AllIn(t, Len(word) + 1, Len(word) + w, Whitespace)
          /\ t[Len(word) + w + 1] \in Digit

Chapter == <<"C","h","a","p","t","e","r">>

Section == <<"S","e","c","t","i","o","n">>

heading_patterns == <<"ALLCAPS", "NUMBERED", "TITLECASE", "CHAPTER", "SECTION">>

re_match(pattern, t) ==
    CASE pattern = "ALLCAPS"   -> MatchAllCaps(t)
      [] pattern = "NUMBERED"  -> MatchNumbered(t)
      [] pattern = "TITLECASE" -> MatchTitleCase(t)
      [] pattern = "CHAPTER"   -> MatchWordNumber(t, Chapter)
      [] pattern = "SECTION"   -> MatchWordNumber(t, Section)

\* for pattern in self.heading_patterns: if re.match(pattern, text): ...
AnyPattern(t) == \E k \in 1..Len(heading_patterns) : re_match(heading_patterns[k], t)

(***************************************************************************)
(* list.sort(key=...): a stable ascending sort; key[i] is the key of s[i]. *)
(***************************************************************************)
StableSort(s, key) ==
    LET n == Len(s)
        place == [i \in 1..n |->
            1 + Cardinality({j \in 1..n : key[j] < key[i] \/ (key[j] = key[i] /\ j < i)})]
        position == SubSeq(place, 1, n)
        sorted == [k \in 1..n |-> s[CHOOSE i \in 1..n : position[i] = k]]
    IN  SubSeq(sorted, 1, n)

\* all sequences over S of length at most n
SeqsUpTo(S, n) == UNION {[1..m -> S] : m \in 0..n}


(***************************************************************************)
(* State.                                                                  *)
(***************************************************************************)
VARIABLES
    \* RobustPDFProcessor.process_pdf
    pc,           \* position in process_pdf
    num_pages,    \* len(doc) of the opened document
    page_num,     \* pages of the document decoded so far
    text_blocks,  \* the spans extract_text_with_positions has collected
    headings,     \* result of identify_headings
    title,        \* result of extract_title
    outline,      \* result of refine_outline
    result,       \* <<>> until process_pdf returns, then <<the record>>
    \* MinimalCollectionProcessor.process_all_collections
    cpc,                  \* position in process_all_collections / process_collection
    n_collections,        \* len(collections), the collection directories found
    input_exists,         \* input_file.exists() of the collection in progress
    documents,            \* the filenames of input_config["documents"]
    persona,              \* input_config["persona"]["role"]
    task,                 \* input_config["job_to_be_done"]["task"]
    doc_idx,              \* documents the loop of process_collection has visited
    all_sections,         \* the ranking pool
    processing_log,       \* filenames printed by "Processing document: ..."
    error_log,            \* filenames printed by "Error extracting sections from ..."
    ranked_sections,
    extracted_sections,
    subsection_analysis,
    coll_result,          \* <<>> until process_collection returns, then <<the value>>
    saved,                \* per collection handled, the kind of output file written
    \* a single call of a method of one of the two processors
    call,         \* the method called last, "none" before the first call
    args,         \* its arguments
    ret           \* <<the value it returned>>

varsPdf == <<pc, num_pages, page_num, text_blocks, headings, title, outline, result>>

varsCollection == <<cpc, n_collections, input_exists, documents, persona, task, doc_idx,
                    all_sections, processing_log, error_log, ranked_sections,
                    extracted_sections, subsection_analysis, coll_result, saved>>

varsCall == <<call, args, ret>>

vars == <<varsPdf, varsCollection, varsCall>>

(***************************************************************************)
(* Challenge_1a: RobustPDFProcessor                                        *)
(***************************************************************************)
\* texts of the spans the decoder can deliver
TxtPage == <<"P","a","g","e">>
TxtContinued == <<"C","O","N","T","I","N","U","E","D">>
TxtDots == <<".",".",".">>
TxtAB == <<"A","B">>
TxtIntroduction == <<"I","N","T","R","O","D","U","C","T","I","O","N">>
TxtNumbered == <<"1","."," ","S","c","o","p","e">>
TxtDigits == <<"1","2","3","4","5","6">>
TxtSummary == <<"S","u","m","m","a","r","y">>
TxtBlank == <<" "," ">>
TxtFooter == <<"p","a","g","e"," ","3"," ","o","f"," ","9">>
\* padded with whitespace, which the extraction strips
TxtChapter == <<" ","C","h","a","p","t","e","r"," ","1"," ">>
BodyWord == <<"b","o","d","y"," ","t","e","x","t"," ">>

\* n copies of t
RECURSIVE Repeat(_, _)
Repeat(t, n) == IF n = 0 THEN <<>> ELSE t \o Repeat(t, n - 1)

\* 150 lower-case characters
TxtBody == SubSeq(Repeat(BodyWord, 15), 1, 149) \o <<"s">>

\* a span of a text block of page.get_text("dict"); flags has bit 4 set for bold
RawSpan(text, size, flags, y0, y1) ==
    [lines |-> TRUE, text |-> text, size |-> size, flags |-> flags,
     bbox |-> <<72, y0, 300, y1>>]

\* an image block: a block without "lines"
ImageBlock ==
    [lines |-> FALSE, text |-> <<>>, size |-> 0, flags |-> 0, bbox |-> <<0, 0, 0, 0>>]

RawSpans == {
    RawSpan(TxtPage, 18, 16, 10, 30),
    RawSpan(TxtContinued, 10, 16, 740, 750),
    RawSpan(TxtDots, 10, 0, 300, 310),
    RawSpan(TxtAB, 13, 16, 50, 65),
    RawSpan(TxtIntroduction, 18, 16, 40, 60),
    RawSpan(TxtNumbered, 18, 2, 100, 120),
    RawSpan(TxtBody, 10, 0, 600, 610),
    RawSpan(TxtDigits, 10, 0, 500, 510),
    RawSpan(TxtSummary, 10, 0, 20, 30),
    RawSpan(TxtBlank, 10, 0, 5, 15),
    RawSpan(TxtFooter, 10, 2, 780, 790),
    RawSpan(TxtChapter, 15, 0, 90, 105),
    ImageBlock }

\* bool(span["flags"] & 2**k)
FlagBit(flags, k) == (flags \div (2 ^ k)) % 2 = 1

\* extract_text_with_positions, the body of the page loop: the spans of one
\* page, stripped, without the empty ones and without the image blocks
page_text_blocks(raw, page) ==
    LET kept == SelectSeq(raw, LAMBDA s : s.lines /\ strip(s.text) # <<>>)
    IN  [i \in 1..Len(kept) |->
            [text      |-> strip(kept[i].text),
             page      |-> page,
             font_size |-> kept[i].size,
             font_flags |-> kept[i].flags,
             bbox      |-> kept[i].bbox,
             is_bold   |-> FlagBit(kept[i].flags, 4),
             is_italic |-> FlagBit(kept[i].flags, 1)]]

Noise == {<<"p","a","g","e">>,
          <<"c","o","n","t","i","n","u","e","d">>,
          <<".",".",".">>}

Max(S) == CHOOSE x \in S : \A y \in S : y <= x

Min2(a, b) == IF a <= b THEN a ELSE b

\* the size bonuses as two independent tests, and no clamp
calculate_heading_confidence_SizeBonusesAdd(block, page_blocks) ==
    LET font == (IF block.font_size > 14 THEN 3 ELSE 0)
                + (IF block.font_size > 12 THEN 2 ELSE 0)
        bold == IF block.is_bold THEN 3 ELSE 0
        pat  == IF AnyPattern(block.text) THEN 2 ELSE 0
        len  == IF 3 <= Len(block.text) /\ Len(block.text) <= 100 THEN 1 ELSE 0
        y_pos == block.bbox[2]
        page_height == Max({page_blocks[k].bbox[4] : k \in 1..Len(page_blocks)})
        pos  == IF 10 * y_pos < 3 * page_height THEN 1 ELSE 0
    IN  font + bold + pat + len + pos

\* the two size bonuses exchanged
calculate_heading_confidence_SizeBonusesSwapped(block, page_blocks) ==
    LET font == IF block.font_size > 14 THEN 2
                ELSE IF block.font_size > 12 THEN 3 ELSE 0
        bold == IF block.is_bold THEN 3 ELSE 0
        pat  == IF AnyPattern(block.text) THEN 2 ELSE 0
        len  == IF 3 <= Len(block.text) /\ Len(block.text) <= 100 THEN 1 ELSE 0
        y_pos == block.bbox[2]
        page_height == Max({page_blocks[k].bbox[4] : k \in 1..Len(page_blocks)})
        pos  == IF 10 * y_pos < 3 * page_height THEN 1 ELSE 0
    IN  Min2(font + bold + pat + len + pos, 10)

\* calculate_heading_confidence, in tenths
calculate_heading_confidence(block, page_blocks) ==
    LET font == IF block.font_size > 14 THEN 3
                ELSE IF block.font_size > 12 THEN 2 ELSE 0
        bold == IF block.is_bold THEN 3 ELSE 0
        pat  == IF AnyPattern(block.text) THEN 2 ELSE 0
        len  == IF 3 <= Len(block.text) /\ Len(block.text) <= 100 THEN 1 ELSE 0
        y_pos == block.bbox[2]
        page_height == Max({page_blocks[k].bbox[4] : k \in 1..Len(page_blocks)})
        pos  == IF 10 * y_pos < 3 * page_height THEN 1 ELSE 0
    IN  Min2(font + bold + pat + len + pos, 10)

\* the test without the trivial-noise set
SkipBlock_NoNoise(text) == Len(text) < 3

\* identify_headings, the test at the head of the loop body
SkipBlock(text) == Len(text) < 3 \/ lower(text) \in Noise

\* identify_headings, the loop body for page_blocks[i]: <<>> or <<heading>>
block_heading(page_blocks, i, page) ==
    LET block == page_blocks[i]
        text == block.text
        font_size == block.font_size
        typo == font_size > 12 \/ block.is_bold
        level1 == IF typo /\ font_size > 16 THEN "H1"
                  ELSE IF typo /\ font_size > 14 THEN "H2" ELSE "H3"
        pat == AnyPattern(text)
        level2 == IF pat /\ MatchAllCaps(text) THEN "H1"
                  ELSE IF pat /\ MatchNumbered(text) THEN "H2" ELSE level1
        first == i = 1 /\ Len(text) > 5 /\ ~isdigit(text)
        level3 == IF first THEN "H1" ELSE level2
        body_next == /\ i < Len(page_blocks)
                     /\ page_blocks[i + 1].font_size < font_size
                     /\ Len(page_blocks[i + 1].text) > 20
        is_heading == typo \/ pat \/ first \/ body_next
    IN  IF SkipBlock(text) \/ ~is_heading THEN <<>>
        ELSE << [level      |-> level3,
                 text       |-> text,
                 page       |-> page,
                 font_size  |-> font_size,
                 confidence |-> calculate_heading_confidence(block, page_blocks)] >>

\* the keys of the defaultdict pages, in insertion order
PageKeys(blocks) ==
    LET f[i \in 0..Len(blocks)] ==
            IF i = 0 THEN <<>>
            ELSE LET seen == f[i - 1]
                 IN  IF \E k \in 1..Len(seen) : seen[k] = blocks[i].page
                     THEN seen ELSE Append(seen, blocks[i].page)
    IN  f[Len(blocks)]

\* pages[page_num] after page_blocks.sort(key=bbox[1])
sorted_page_blocks(blocks, page) ==
    LET page_blocks == SelectSeq(blocks, LAMBDA b : b.page = page)
        y0 == [i \in 1..Len(page_blocks) |-> page_blocks[i].bbox[2]]
    IN  StableSort(page_blocks, y0)

\* the headings of one page
page_headings(blocks, page) ==
    LET pb == sorted_page_blocks(blocks, page)
        f[i \in 0..Len(pb)] ==
            IF i = 0 THEN <<>> ELSE f[i - 1] \o block_heading(pb, i, page)
    IN  f[Len(pb)]

\* the headings left in the order of the page loop when the first sort fails
identify_headings_NoFallback(blocks) ==
    LET keys == PageKeys(blocks)
        f[i \in 0..Len(keys)] ==
            IF i = 0 THEN <<>> ELSE f[i - 1] \o page_headings(blocks, keys[i])
    IN  f[Len(keys)]

\* identify_headings: the key of the first sort raises IndexError (a heading
\* has no "bbox", and [0][1] is out of range), so the fallback sort by page
\* orders the headings
identify_headings(blocks) ==
    LET keys == PageKeys(blocks)
        f[i \in 0..Len(keys)] ==
            IF i = 0 THEN <<>> ELSE f[i - 1] \o page_headings(blocks, keys[i])
        hs == f[Len(keys)]
    IN  StableSort(hs, [i \in 1..Len(hs) |-> hs[i].page])

UntitledDocument == <<"U","n","t","i","t","l","e","d"," ","D","o","c","u","m","e","n","t">>

TitlePage == <<"p","a","g","e">>

TitleContinued == <<"c","o","n","t","i","n","u","e","d">>

\* the test without "not text.isdigit()"
Significant_NoDigitTest(text) ==
    /\ Len(text) > 5
    /\ ~startswith(lower(text), TitlePage)
    /\ ~startswith(lower(text), TitleContinued)

\* extract_title, the test of the fallback scan
Significant(text) ==
    /\ Len(text) > 5
    /\ ~isdigit(text)
    /\ ~startswith(lower(text), TitlePage)
    /\ ~startswith(lower(text), TitleContinued)

\* the scan of the headings returning the last H1 instead of the first
extract_title_LastH1(blocks, hs) ==
    IF blocks = <<>> THEN UntitledDocument
    ELSE IF \E k \in 1..Len(hs) : hs[k].level = "H1"
    THEN hs[CHOOSE k \in 1..Len(hs) :
                /\ hs[k].level = "H1"
                /\ \A j \in (k + 1)..Len(hs) : hs[j].level # "H1"].text
    ELSE IF \E k \in 1..Len(blocks) : Significant(strip(blocks[k].text))
    THEN prefix(strip(blocks[CHOOSE k \in 1..Len(blocks) :
                /\ Significant(strip(blocks[k].text))
                /\ \A j \in 1..(k - 1) : ~Significant(strip(blocks[j].text))].text), 100)
    ELSE UntitledDocument

extract_title(blocks, hs) ==
    IF blocks = <<>> THEN UntitledDocument
    ELSE IF \E k \in 1..Len(hs) : hs[k].level = "H1"
    THEN hs[CHOOSE k \in 1..Len(hs) :
                /\ hs[k].level = "H1"
                /\ \A j \in 1..(k - 1) : hs[j].level # "H1"].text
    ELSE IF \E k \in 1..Len(blocks) : Significant(strip(blocks[k].text))
    THEN prefix(strip(blocks[CHOOSE k \in 1..Len(blocks) :
                /\ Significant(strip(blocks[k].text))
                /\ \A j \in 1..(k - 1) : ~Significant(strip(blocks[j].text))].text), 100)
    ELSE UntitledDocument

\* the threshold test with <= for <
LowConfidence_Inclusive(h) == h.confidence <= 3

\* heading.get("confidence", 0) < 0.3, in tenths
LowConfidence(h) == h.confidence < 3

refine_outline(hs) ==
    LET kept == SelectSeq(hs, LAMBDA h : strip(h.text) # <<>> /\ ~LowConfidence(h))
    IN  [i \in 1..Len(kept) |->
            [level |-> kept[i].level, text |-> strip(kept[i].text), page |-> kept[i].page]]

ErrorNoText == <<"E","r","r","o","r",":"," ","C","o","u","l","d"," ","n","o","t"," ","e","x","t","r","a","c","t"," ","t","e","x","t">>

(***************************************************************************)
(* Challenge_1b: MinimalCollectionProcessor                                *)
(* A score is an exact fraction <<numerator, denominator>> in lowest       *)
(* terms; the code computes the same quantities in floating point.        *)
(***************************************************************************)
RECURSIVE Gcd(_, _)
Gcd(a, b) == IF b = 0 THEN a ELSE Gcd(b, a % b)

Rat(n, d) == LET g == Gcd(n, d) IN <<n \div g, d \div g>>

RatAdd(a, b) ==
    LET g == Gcd(a[2], b[2])
    IN  Rat(a[1] * (b[2] \div g) + b[1] * (a[2] \div g), a[2] * (b[2] \div g))

RatMul(a, b) ==
    LET g1 == Gcd(a[1], b[2])
        g2 == Gcd(b[1], a[2])
    IN  <<(a[1] \div g1) * (b[1] \div g2), (a[2] \div g2) * (b[2] \div g1)>>

\* n1/d1 < n2/d2, by comparing the continued fractions
RECURSIVE FracLess(_, _, _, _)
FracLess(n1, d1, n2, d2) ==
    IF n1 \div d1 # n2 \div d2 THEN n1 \div d1 < n2 \div d2
    ELSE IF n2 % d2 = 0 THEN FALSE
    ELSE IF n1 % d1 = 0 THEN TRUE
    ELSE FracLess(d2, n2 % d2, d1, n1 % d1)

RatLess(a, b) == FracLess(a[1], a[2], b[1], b[2])

RatMin(a, b) == IF RatLess(b, a) THEN b ELSE a

Zero == <<0, 1>>

One == <<1, 1>>

\* self.persona_keywords
TravelPlannerKeywords == <<
    <<"t","r","a","v","e","l">>,
    <<"t","r","i","p">>,
    <<"v","a","c","a","t","i","o","n">>,
    <<"h","o","t","e","l">>,
    <<"r","e","s","t","a","u","r","a","n","t">>,
    <<"a","t","t","r","a","c","t","i","o","n">>,
    <<"i","t","i","n","e","r","a","r","y">>,
    <<"b","o","o","k","i","n","g">>,
    <<"r","e","s","e","r","v","a","t","i","o","n">>,
    <<"t","r","a","n","s","p","o","r","t">>,
    <<"a","c","c","o","m","m","o","d","a","t","i","o","n">>,
    <<"s","i","g","h","t","s","e","e","i","n","g">>,
    <<"t","o","u","r">>,
    <<"g","u","i","d","e">>,
    <<"m","a","p">>,
    <<"l","o","c","a","t","i","o","n">>,
    <<"c","i","t","y">>,
    <<"r","e","g","i","o","n">>,
    <<"c","u","l","t","u","r","e">>,
    <<"c","u","i","s","i","n","e">>,
    <<"a","c","t","i","v","i","t","i","e","s">>,
    <<"e","n","t","e","r","t","a","i","n","m","e","n","t">>,
    <<"b","u","d","g","e","t">>,
    <<"c","o","s","t">>,
    <<"f","r","a","n","c","e">>,
    <<"s","o","u","t","h">>,
    <<"m","e","d","i","t","e","r","r","a","n","e","a","n">>,
    <<"c","o","a","s","t">>,
    <<"b","e","a","c","h">>,
    <<"w","i","n","e">>,
    <<"f","o","o","d">> >>

HRProfessionalKeywords == <<
    <<"f","o","r","m">>,
    <<"d","o","c","u","m","e","n","t">>,
    <<"s","i","g","n","a","t","u","r","e">>,
    <<"c","o","m","p","l","i","a","n","c","e">>,
    <<"o","n","b","o","a","r","d","i","n","g">>,
    <<"e","m","p","l","o","y","e","e">>,
    <<"h","r">>,
    <<"h","u","m","a","n"," ","r","e","s","o","u","r","c","e","s">>,
    <<"p","o","l","i","c","y">>,
    <<"p","r","o","c","e","d","u","r","e">>,
    <<"f","i","l","l","a","b","l","e">>,
    <<"e","d","i","t","a","b","l","e">>,
    <<"t","e","m","p","l","a","t","e">>,
    <<"w","o","r","k","f","l","o","w">>,
    <<"a","p","p","r","o","v","a","l">>,
    <<"d","i","g","i","t","a","l">>,
    <<"e","l","e","c","t","r","o","n","i","c">>,
    <<"a","u","t","o","m","a","t","i","o","n">>,
    <<"p","r","o","c","e","s","s">>,
    <<"m","a","n","a","g","e","m","e","n","t">>,
    <<"a","c","r","o","b","a","t">>,
    <<"p","d","f">>,
    <<"f","i","l","l">>,
    <<"s","i","g","n">>,
    <<"e","x","p","o","r","t">>,
    <<"s","h","a","r","e">>,
    <<"e","d","i","t">> >>

FoodContractorKeywords == <<
    <<"r","e","c","i","p","e">>,
    <<"c","o","o","k","i","n","g">>,
    <<"f","o","o","d">>,
    <<"i","n","g","r","e","d","i","e","n","t">>,
    <<"m","e","a","l">>,
    <<"d","i","s","h">>,
    <<"v","e","g","e","t","a","r","i","a","n">>,
    <<"b","u","f","f","e","t">>,
    <<"c","a","t","e","r","i","n","g">>,
    <<"m","e","n","u">>,
    <<"p","r","e","p","a","r","a","t","i","o","n">>,
    <<"k","i","t","c","h","e","n">>,
    <<"c","h","e","f">>,
    <<"c","u","l","i","n","a","r","y">>,
    <<"d","i","n","i","n","g">>,
    <<"s","e","r","v","i","c","e">>,
    <<"c","o","r","p","o","r","a","t","e">>,
    <<"e","v","e","n","t">>,
    <<"g","a","t","h","e","r","i","n","g">>,
    <<"p","a","r","t","y">>,
    <<"c","e","l","e","b","r","a","t","i","o","n">>,
    <<"d","i","e","t","a","r","y">>,
    <<"n","u","t","r","i","t","i","o","n">>,
    <<"b","r","e","a","k","f","a","s","t">>,
    <<"l","u","n","c","h">>,
    <<"d","i","n","n","e","r">>,
    <<"m","a","i","n">>,
    <<"s","i","d","e">>,
    <<"a","p","p","e","t","i","z","e","r">> >>

PersonaNames == {"Travel Planner", "HR Professional", "Food Contractor"}

persona_keywords == [p \in PersonaNames |->
    CASE p = "Travel Planner"  -> TravelPlannerKeywords
      [] p = "HR Professional" -> HRProfessionalKeywords
      [] p = "Food Contractor" -> FoodContractorKeywords]

\* k in t, for two texts
contains(t, k) ==
    \/ k = <<>>
    \/ \E i \in 1..(Len(t) - Len(k) + 1) :
          t[i] = k[1] /\ SubSeq(t, i, i + Len(k) - 1) = k

\* the result returned without min(relevance, 1.0)
calculate_persona_relevance_NoClamp(text, role) ==
    LET keywords == IF role \in PersonaNames THEN persona_keywords[role] ELSE <<>>
        text_lower == lower(text)
        keyword_matches ==
            Cardinality({k \in 1..Len(keywords) : contains(text_lower, lower(keywords[k]))})
        relevance == Rat(keyword_matches, Len(keywords))
    IN  IF text = <<>> \/ role = "" \/ keywords = <<>> THEN Zero
        ELSE IF Len(text) > 100 THEN RatMul(relevance, <<6, 5>>) ELSE relevance

\* the boost given from 100 characters on, not from 101
calculate_persona_relevance_BoostAt100(text, role) ==
    LET keywords == IF role \in PersonaNames THEN persona_keywords[role] ELSE <<>>
        text_lower == lower(text)
        keyword_matches ==
            Cardinality({k \in 1..Len(keywords) : contains(text_lower, lower(keywords[k]))})
        relevance == Rat(keyword_matches, Len(keywords))
        boosted == IF Len(text) >= 100 THEN RatMul(relevance, <<6, 5>>) ELSE relevance
    IN  IF text = <<>> \/ role = "" \/ keywords = <<>> THEN Zero
        ELSE RatMin(boosted, One)

\* calculate_persona_relevance; a label is a string, a text a character sequence
calculate_persona_relevance(text, role) ==
    LET keywords == IF role \in PersonaNames THEN persona_keywords[role] ELSE <<>>
        text_lower == lower(text)
        keyword_matches ==
            Cardinality({k \in 1..Len(keywords) : contains(text_lower, lower(keywords[k]))})
        relevance == Rat(keyword_matches, Len(keywords))
        boosted == IF Len(text) > 100 THEN RatMul(relevance, <<6, 5>>) ELSE relevance
    IN  IF text = <<>> \/ role = "" \/ keywords = <<>> THEN Zero
        ELSE RatMin(boosted, One)

RECURSIVE SumSeq(_)
SumSeq(s) == IF s = <<>> THEN 0 ELSE Head(s) + SumSeq(Tail(s))

\* rank_sections_by_importance, the score of one section
importance_score(section, persona_relevance, task_relevance) ==
    LET text == section.text
        length_factor == RatMin(Rat(Len(text), 1000), One)
        heading_factor == IF section.is_heading THEN <<3, 2>> ELSE One
        font_sizes == section.font_sizes
        font_factor == IF font_sizes # <<>>
                       THEN RatMin(Rat(SumSeq(font_sizes), 12 * Len(font_sizes)), <<2, 1>>)
                       ELSE One
    IN  RatMul(RatAdd(RatAdd(RatMul(persona_relevance, <<2, 5>>),
                             RatMul(task_relevance, <<3, 10>>)),
                      RatAdd(RatMul(length_factor, <<1, 5>>),
                             RatMul(heading_factor, <<1, 10>>))),
               font_factor)

\* {**section, "importance_score": ..., "persona_relevance": ..., "task_relevance": ...}
ranked_section(section, role, job) ==
    LET persona_relevance == calculate_persona_relevance(section.text, role)
        task_relevance == calculate_persona_relevance(section.text, job)
    IN  [text              |-> section.text,
         page              |-> section.page,
         font_sizes        |-> section.font_sizes,
         is_heading        |-> section.is_heading,
         document          |-> section.document,
         importance_score  |-> importance_score(section, persona_relevance, task_relevance),
         persona_relevance |-> persona_relevance,
         task_relevance    |-> task_relevance]

\* a sort that sorts ascending and reverses the result: ties come out in
\* reverse order
Precedes_TiesReversed(rs, j, i) ==
    \/ RatLess(rs[i].importance_score, rs[j].importance_score)
    \/ j > i /\ ~RatLess(rs[j].importance_score, rs[i].importance_score)

\* list.sort(key=importance_score, reverse=True): rs[j] comes before rs[i]
\* when its score is higher, or equal with j ahead of i in rs (the sort is
\* stable, also with reverse=True)
Precedes(rs, j, i) ==
    \/ RatLess(rs[i].importance_score, rs[j].importance_score)
    \/ j < i /\ ~RatLess(rs[j].importance_score, rs[i].importance_score)

\* ranked_sections.sort(key=lambda x: x["importance_score"], reverse=True)
sort_by_importance(rs) ==
    LET n == Len(rs)
        place == [i \in 1..n |-> 1 + Cardinality({j \in 1..n : Precedes(rs, j, i)})]
        position == SubSeq(place, 1, n)
        sorted == [k \in 1..n |-> rs[CHOOSE i \in 1..n : position[i] = k]]
    IN  SubSeq(sorted, 1, n)

\* the ranking without the test for blank text
rank_sections_by_importance_KeepsBlank(sections, role, job) ==
    LET ranked == [i \in 1..Len(sections) |-> ranked_section(sections[i], role, job)]
    IN  sort_by_importance(SubSeq(ranked, 1, Len(sections)))

\* rank_sections_by_importance: blank sections are skipped, the rest scored
\* and sorted

rank_sections_by_importance(sections, role, job) ==
    LET kept == SelectSeq(sections, LAMBDA s : strip(s.text) # <<>>)
        ranked == [i \in 1..Len(kept) |-> ranked_section(kept[i], role, job)]
    IN  sort_by_importance(SubSeq(ranked, 1, Len(kept)))

\* extract_sections_from_pdf, the heading test of the span loop
section_trigger(text, font_size, is_bold) ==
    \/ font_size > 14
    \/ is_bold
    \/ MatchAllCaps(text)
    \/ MatchNumbered(text)

EmptySection(page) ==
    [text |-> <<>>, page |-> page, font_sizes |-> <<>>, is_heading |-> FALSE]

\* extract_sections_from_pdf, the span loop: acc is <<sections, current_section>>
scan_span(acc, span, page) ==
    LET sections == acc[1]
        current_section == acc[2]
        text == strip(span.text)
        font_size == span.size
        is_bold == FlagBit(span.flags, 4)
    IN  IF ~span.lines \/ text = <<>> THEN acc
        ELSE IF section_trigger(text, font_size, is_bold)
        THEN << IF strip(current_section.text) # <<>>
                THEN Append(sections, current_section) ELSE sections,
                [text |-> text, page |-> page,
                 font_sizes |-> <<font_size>>, is_heading |-> TRUE] >>
        ELSE << sections,
                [current_section EXCEPT
                    !.text = IF current_section.text # <<>>
                             THEN current_section.text \o <<" ">> \o text ELSE text,
                    !.font_sizes = Append(current_section.font_sizes, font_size)] >>

\* the page loop without the append of the last section of the page
page_sections_NoFlush(raw, page) ==
    LET f[i \in 0..Len(raw)] ==
            IF i = 0 THEN << <<>>, EmptySection(page) >>
            ELSE scan_span(f[i - 1], raw[i], page)
    IN  f[Len(raw)][1]

\* extract_sections_from_pdf, one iteration of the page loop: the sections
\* which the page whose spans are raw appends to the list
page_sections(raw, page) ==
    LET f[i \in 0..Len(raw)] ==
            IF i = 0 THEN << <<>>, EmptySection(page) >>
            ELSE scan_span(f[i - 1], raw[i], page)
        last == f[Len(raw)]
    IN  IF strip(last[2].text) # <<>> THEN Append(last[1], last[2]) ELSE last[1]

\* A document on disk: opens tells whether fitz.open succeeds, each page is
\* [ok |-> whether page.get_text("dict") succeeds, raw |-> its spans].
\* extract_sections_from_pdf: the exception handler encloses the page loop,
\* and the sections appended before the exception are returned.
extract_sections_from_pdf(doc) ==
    LET f[i \in 0..Len(doc.pages)] ==
            IF i = 0 THEN <<>>
            ELSE IF \E j \in 1..i : ~doc.pages[j].ok THEN f[i - 1]
            ELSE f[i - 1] \o page_sections(doc.pages[i].raw, i)
    IN  IF doc.opens THEN f[Len(doc.pages)] ELSE <<>>

\* whether extract_sections_from_pdf prints "Error extracting sections"
extraction_fails(doc) == ~doc.opens \/ \E j \in 1..Len(doc.pages) : ~doc.pages[j].ok

\* re.sub(r'\s+', ' ', text.strip())
collapse_whitespace(text) ==
    LET s == strip(text)
        keep == SelectSeq([i \in 1..Len(s) |-> <<i, s[i]>>],
                    LAMBDA p : p[2] \notin Whitespace \/ s[p[1] - 1] \notin Whitespace)
        spaced == [i \in 1..Len(keep) |-> IF keep[i][2] \in Whitespace THEN " " ELSE keep[i][2]]
    IN  SubSeq(spaced, 1, Len(keep))

WordChar == UpperCase \cup LowerCase \cup Digit \cup {"_"}

\* re.sub(r'\b\d+\s*$', '', text): the first position from which digits and
\* then whitespace run to the end, the digits starting at a word boundary
strip_page_number(text) ==
    LET starts == {i \in 1..Len(text) :
            /\ text[i] \in Digit
            /\ i = 1 \/ text[i - 1] \notin WordChar
            /\ \E d \in i..Len(text) :
                  /\ AllIn(text, i, d, Digit)
                  /\ \A k \in (d + 1)..Len(text) : text[k] \in Whitespace}
    IN  IF starts = {} THEN text
        ELSE SubSeq(text, 1, (CHOOSE i \in starts : \A j \in starts : i <= j) - 1)

SentenceEnd == {".", "!", "?"}

\* re.split(r'[.!?]+', text)
RECURSIVE split_sentences(_)
split_sentences(text) ==
    LET ends == {i \in 1..Len(text) : text[i] \in SentenceEnd}
    IN  IF ends = {} THEN <<text>>
        ELSE LET b == CHOOSE i \in ends : \A j \in ends : i <= j
                 e == CHOOSE i \in b..Len(text) :
                          /\ \A k \in b..i : text[k] \in SentenceEnd
                          /\ i = Len(text) \/ text[i + 1] \notin SentenceEnd
             IN  <<SubSeq(text, 1, b - 1)>> \o split_sentences(SubSeq(text, e + 1, Len(text)))

MaxRefinedLen == 2000

\* the loop over the sentences with <= for <
RECURSIVE join_sentences_Inclusive(_, _)
join_sentences_Inclusive(refined_text, sentences) ==
    IF sentences = <<>> THEN refined_text
    ELSE IF Len(refined_text) + Len(Head(sentences)) <= MaxRefinedLen
    THEN join_sentences_Inclusive(refined_text \o Head(sentences) \o <<".", " ">>, Tail(sentences))
    ELSE refined_text

\* refine_text_for_subsection, the loop over the sentences
RECURSIVE join_sentences(_, _)
join_sentences(refined_text, sentences) ==
    IF sentences = <<>> THEN refined_text
    ELSE IF Len(refined_text) + Len(Head(sentences)) < MaxRefinedLen
    THEN join_sentences(refined_text \o Head(sentences) \o <<".", " ">>, Tail(sentences))
    ELSE refined_text

\* a text in which no sentence fits is cut at the limit
refine_text_for_subsection_CutsAt2000(text) ==
    LET cleaned == strip_page_number(collapse_whitespace(text))
        joined == strip(join_sentences(<<>>, split_sentences(cleaned)))
    IN  IF text = <<>> THEN <<>>
        ELSE IF Len(cleaned) > MaxRefinedLen
        THEN IF joined = <<>> THEN prefix(cleaned, MaxRefinedLen) ELSE joined
        ELSE cleaned

refine_text_for_subsection(text) ==
    LET cleaned == strip_page_number(collapse_whitespace(text))
    IN  IF text = <<>> THEN <<>>
        ELSE IF Len(cleaned) > MaxRefinedLen
        THEN strip(join_sentences(<<>>, split_sentences(cleaned)))
        ELSE cleaned

TopSections == 10

TopSubsections == 15

MaxTitleLen == 200

Ellipsis == <<".",".",".">>

\* process_collection: the entries of extracted_sections
extracted_entries(ranked) ==
    LET top_sections == prefix(ranked, TopSections)
        entries == [i \in 1..Len(top_sections) |->
            [document        |-> top_sections[i].document,
             section_title   |-> IF Len(top_sections[i].text) > MaxTitleLen
                                 THEN SubSeq(top_sections[i].text, 1, MaxTitleLen) \o Ellipsis
                                 ELSE top_sections[i].text,
             importance_rank |-> i,
             page_number     |-> top_sections[i].page]]
    IN  SubSeq(entries, 1, Len(top_sections))

\* subsection_analysis taken from top_sections instead of ranked_sections[:15]
subsection_entries_FromTop10(ranked) ==
    LET top == prefix(prefix(ranked, TopSections), TopSubsections)
        refined == [i \in 1..Len(top) |->
            [document     |-> top[i].document,
             refined_text |-> refine_text_for_subsection(top[i].text),
             page_number  |-> top[i].page]]
    IN  SelectSeq(SubSeq(refined, 1, Len(top)), LAMBDA e : e.refined_text # <<>>)

\* process_collection: the entries of subsection_analysis
subsection_entries(ranked) ==
    LET top == prefix(ranked, TopSubsections)
        refined == [i \in 1..Len(top) |->
            [document     |-> top[i].document,
             refined_text |-> refine_text_for_subsection(top[i].text),
             page_number  |-> top[i].page]]
    IN  SelectSeq(SubSeq(refined, 1, Len(top)), LAMBDA e : e.refined_text # <<>>)


(***************************************************************************)
(* process_pdf, step by step.  identify_headings, extract_title and        *)
(* refine_outline are public methods: the model also lets them run on an   *)
(* empty span list, which process_pdf itself returns before doing.         *)
(***************************************************************************)
InitPdf ==
    /\ pc = "start"
    /\ num_pages = 0
    /\ page_num = 0
    /\ text_blocks = <<>>
    /\ headings = <<>>
    /\ title = <<>>
    /\ outline = <<>>
    /\ result = <<>>
    \* process_all_collections is not running
    /\ cpc = "loop"
    /\ n_collections = 0
    /\ input_exists = FALSE
    /\ documents = <<>>
    /\ persona = ""
    /\ task = ""
    /\ doc_idx = 0
    /\ all_sections = <<>>
    /\ processing_log = <<>>
    /\ error_log = {}
    /\ ranked_sections = <<>>
    /\ extracted_sections = <<>>
    /\ subsection_analysis = <<>>
    /\ coll_result = <<>>
    /\ saved = <<>>
    \* no single method call is going on
    /\ call = "none"
    /\ args = <<>>
    /\ ret = <<>>

\* extract_text_with_positions: fitz.open raises, [] is returned
OpenFails ==
    /\ pc = "start"
    /\ pc' = "extracted"
    /\ UNCHANGED <<num_pages, page_num, text_blocks, headings, title, outline, result>>
    /\ UNCHANGED <<varsCollection, varsCall>>

\* extract_text_with_positions: fitz.open succeeds on a document of n pages
OpenDoc ==
    /\ pc = "start"
    /\ \E n \in 0..MaxPages : num_pages' = n
    /\ pc' = "pages"
    /\ UNCHANGED <<page_num, text_blocks, headings, title, outline, result>>
    /\ UNCHANGED <<varsCollection, varsCall>>

\* extract_text_with_positions: one iteration of the page loop
DecodePage ==
    /\ pc = "pages"
    /\ page_num < num_pages
    /\ \E raw \in SeqsUpTo(RawSpans, MaxSpans - Len(text_blocks)) :
          text_blocks' = text_blocks \o page_text_blocks(raw, page_num + 1)
    /\ page_num' = page_num + 1
    /\ UNCHANGED <<pc, num_pages, headings, title, outline, result>>
    /\ UNCHANGED <<varsCollection, varsCall>>

\* extract_text_with_positions: page.get_text raises, the page is skipped
DecodePageFails ==
    /\ pc = "pages"
    /\ page_num < num_pages
    /\ page_num' = page_num + 1
    /\ UNCHANGED <<pc, num_pages, text_blocks, headings, title, outline, result>>
    /\ UNCHANGED <<varsCollection, varsCall>>

\* extract_text_with_positions: doc.close() and return text_blocks; the
\* document and the loop counter are gone
CloseDoc ==
    /\ pc = "pages"
    /\ page_num = num_pages
    /\ pc' = "extracted"
    /\ num_pages' = 0
    /\ page_num' = 0
    /\ UNCHANGED <<text_blocks, headings, title, outline, result>>
    /\ UNCHANGED <<varsCollection, varsCall>>

\* the early return taken for extract_title's sentinel
ReturnNoText_Untitled ==
    /\ pc = "extracted"
    /\ text_blocks = <<>>
    /\ result' = << [title |-> UntitledDocument, outline |-> <<>>] >>
    /\ pc' = "done"
    /\ UNCHANGED <<num_pages, page_num, text_blocks, headings, title, outline>>
    /\ UNCHANGED <<varsCollection, varsCall>>

\* process_pdf: if not text_blocks: return the degraded record
ReturnNoText ==
    /\ pc = "extracted"
    /\ text_blocks = <<>>
    /\ result' = << [title |-> ErrorNoText, outline |-> <<>>] >>
    /\ pc' = "done"
    /\ UNCHANGED <<num_pages, page_num, text_blocks, headings, title, outline>>
    /\ UNCHANGED <<varsCollection, varsCall>>

IdentifyHeadings ==
    /\ pc = "extracted"
    /\ headings' = identify_headings(text_blocks)
    /\ pc' = "identified"
    /\ UNCHANGED <<num_pages, page_num, text_blocks, title, outline, result>>
    /\ UNCHANGED <<varsCollection, varsCall>>

ExtractTitle ==
    /\ pc = "identified"
    /\ title' = extract_title(text_blocks, headings)
    /\ pc' = "titled"
    /\ UNCHANGED <<num_pages, page_num, text_blocks, headings, outline, result>>
    /\ UNCHANGED <<varsCollection, varsCall>>

RefineOutline ==
    /\ pc = "titled"
    /\ outline' = refine_outline(headings)
    /\ pc' = "refined"
    /\ UNCHANGED <<num_pages, page_num, text_blocks, headings, title, result>>
    /\ UNCHANGED <<varsCollection, varsCall>>

\* process_pdf: return {"title": title, "outline": outline}
ReturnResult ==
    /\ pc = "refined"
    /\ text_blocks # <<>>
    /\ result' = << [title |-> title, outline |-> outline] >>
    /\ pc' = "done"
    /\ UNCHANGED <<num_pages, page_num, text_blocks, headings, title, outline>>
    /\ UNCHANGED <<varsCollection, varsCall>>

NextPdf ==
    \/ OpenFails
    \/ OpenDoc
    \/ DecodePage
    \/ DecodePageFails
    \/ CloseDoc
    \/ ReturnNoText
    \/ IdentifyHeadings
    \/ ExtractTitle
    \/ RefineOutline
    \/ ReturnResult


(***************************************************************************)
(* process_all_collections and process_collection, step by step.  The      *)
(* files are the environment: whether a collection has its input file, what *)
(* the configuration lists, whether a listed PDF exists and what the        *)
(* decoder makes of it are chosen when the code asks.  document_texts, the  *)
(* dictionary process_collection fills from extract_text_from_pdf, is never *)
(* read and is left out.                                                    *)
(***************************************************************************)
MaxCollections == 2

MaxDocs == 2

TxtLunch == <<"o","u","r"," ","l","u","n","c","h"," ","m","e","n","u">>
TxtBuffet == <<"B","u","f","f","e","t">>
TxtCatering == <<"1","."," ","C","a","t","e","r","i","n","g">>
TxtMenu == <<"M","E","N","U">>
TxtYear == <<"2","0","2","4">>
DishWords == <<"f","r","e","s","h"," ","f","o","o","d"," ","a","n","d"," ","a"," ","s","i","d","e"," ","d","i","s","h"," ">>

\* 107 characters after strip()
TxtDishes == Repeat(DishWords, 4)

\* the first n characters of word repeated without end
Fill(word, n) == SubSeq([i \in 1..n |-> word[((i - 1) % Len(word)) + 1]], 1, n)

\* 2001 characters without . ! ?
TxtPlain2001 == Fill(<<"a","b","c","d"," ">>, 2000) \o <<"e">>

\* A page of five sections: body text under no heading, a bold heading with
\* body text, a numbered heading, an all-caps heading, a bold year.  The
\* 13-point "Summary", the blank span and the image start no section.
PgMixed == <<
    RawSpan(TxtLunch, 10, 0, 80, 90),
    RawSpan(TxtSummary, 13, 0, 100, 113),
    RawSpan(TxtBlank, 10, 0, 120, 130),
    ImageBlock,
    RawSpan(TxtBuffet, 12, 16, 200, 212),
    RawSpan(TxtDishes, 10, 0, 220, 230),
    RawSpan(TxtCatering, 10, 0, 300, 310),
    RawSpan(TxtMenu, 16, 0, 400, 416),
    RawSpan(TxtYear, 10, 16, 700, 710) >>

\* A page of one section, of 2001 characters without sentence punctuation
PgLong == << RawSpan(TxtPlain2001, 10, 0, 80, 700) >>

\* what page.get_text("dict") does on a page: it raises, or delivers spans
Pages == {[ok |-> FALSE, raw |-> <<>>],
          [ok |-> TRUE, raw |-> PgMixed]}

\* the PDF files a collection can hold
Docs == {[opens |-> FALSE, pages |-> <<>>]}
        \cup {[opens |-> TRUE, pages |-> ps] : ps \in SeqsUpTo(Pages, MaxPages)}
        \cup {[opens |-> TRUE, pages |-> << [ok |-> TRUE, raw |-> PgLong] >>]}

FileNames == <<"guide.pdf", "brochure.pdf", "annex.pdf", "appendix.pdf">>

Personas == {"Food Contractor", "Pilot"}

Tasks == {"Prepare a vegetarian buffet"}

\* a run of process_all_collections over the collection directories found
InitAllCollections ==
    /\ cpc = "loop"
    /\ n_collections \in 0..MaxCollections
    /\ input_exists = FALSE
    /\ documents = <<>>
    /\ persona = ""
    /\ task = ""
    /\ doc_idx = 0
    /\ all_sections = <<>>
    /\ processing_log = <<>>
    /\ error_log = {}
    /\ ranked_sections = <<>>
    /\ extracted_sections = <<>>
    /\ subsection_analysis = <<>>
    /\ coll_result = <<>>
    /\ saved = <<>>
    \* process_pdf is not running
    /\ pc = "start"
    /\ num_pages = 0
    /\ page_num = 0
    /\ text_blocks = <<>>
    /\ headings = <<>>
    /\ title = <<>>
    /\ outline = <<>>
    /\ result = <<>>
    \* no single method call is going on
    /\ call = "none"
    /\ args = <<>>
    /\ ret = <<>>

\* process_all_collections: the loop takes the next collection and calls
\* process_collection
StartCollection ==
    /\ cpc = "loop"
    /\ Len(saved) < n_collections
    /\ cpc' = "collection"
    /\ UNCHANGED <<n_collections, input_exists, documents, persona, task, doc_idx,
                   all_sections, processing_log, error_log, ranked_sections,
                   extracted_sections, subsection_analysis, coll_result, saved>>
    /\ UNCHANGED <<varsPdf, varsCall>>

\* the missing input file raises, and nothing catches the exception
InputMissing_Aborts ==
    /\ cpc = "collection"
    /\ cpc' = "finished"
    /\ UNCHANGED <<n_collections, input_exists, documents, persona, task, doc_idx,
                   all_sections, processing_log, error_log, ranked_sections,
                   extracted_sections, subsection_analysis, coll_result, saved>>
    /\ UNCHANGED <<varsPdf, varsCall>>

\* process_collection: if not input_file.exists(): return {"error": ...}
InputMissing ==
    /\ cpc = "collection"
    /\ input_exists' = FALSE
    /\ coll_result' = << [error |-> "Input file not found"] >>
    /\ cpc' = "returned"
    /\ UNCHANGED <<n_collections, documents, persona, task, doc_idx, all_sections,
                   processing_log, error_log, ranked_sections, extracted_sections,
                   subsection_analysis, saved>>
    /\ UNCHANGED <<varsPdf, varsCall>>

\* process_collection: the configuration is read
ReadInput ==
    /\ cpc = "collection"
    /\ input_exists' = TRUE
    /\ \E n \in 0..MaxDocs : documents' = SubSeq(FileNames, 1, n)
    /\ persona' \in Personas
    /\ task' \in Tasks
    /\ cpc' = "documents"
    /\ UNCHANGED <<n_collections, doc_idx, all_sections, processing_log, error_log,
                   ranked_sections, extracted_sections, subsection_analysis,
                   coll_result, saved>>
    /\ UNCHANGED <<varsPdf, varsCall>>

\* process_collection, the document loop: pdf_path.exists() is false
DocumentMissing ==
    /\ cpc = "documents"
    /\ doc_idx < Len(documents)
    /\ doc_idx' = doc_idx + 1
    /\ UNCHANGED <<cpc, n_collections, input_exists, documents, persona, task,
                   all_sections, processing_log, error_log, ranked_sections,
                   extracted_sections, subsection_analysis, coll_result, saved>>
    /\ UNCHANGED <<varsPdf, varsCall>>

\* extract_sections_from_pdf(pdf_path) of every PDF file of Docs; the function
\* reads nothing but the file, so its value is computed once per file
sections_of == [doc \in Docs |-> extract_sections_from_pdf(doc)] @@ <<>>

\* the sections list kept between the calls of extract_sections_from_pdf:
\* every call returns what the earlier documents left in it as well
document_sections_SharedList(doc, filename) ==
    LET sections == all_sections \o sections_of[doc]
        named == [i \in 1..Len(sections) |->
            [text       |-> sections[i].text,
             page       |-> sections[i].page,
             font_sizes |-> sections[i].font_sizes,
             is_heading |-> sections[i].is_heading,
             document   |-> filename]]
    IN  SubSeq(named, 1, Len(sections))

\* the sections of one document, each with section["document"] = filename
document_sections(doc, filename) ==
    LET sections == sections_of[doc]
        named == [i \in 1..Len(sections) |->
            [text       |-> sections[i].text,
             page       |-> sections[i].page,
             font_sizes |-> sections[i].font_sizes,
             is_heading |-> sections[i].is_heading,
             document   |-> filename]]
    IN  SubSeq(named, 1, Len(sections))

\* process_collection, the document loop: the PDF exists and is processed
ProcessDocument ==
    /\ cpc = "documents"
    /\ doc_idx < Len(documents)
    /\ \E doc \in Docs :
          LET filename == documents[doc_idx + 1]
          IN  /\ all_sections' = all_sections \o document_sections(doc, filename)
              /\ processing_log' = Append(processing_log, filename)
              /\ error_log' = IF extraction_fails(doc)
                              THEN error_log \cup {filename} ELSE error_log
    /\ doc_idx' = doc_idx + 1
    /\ UNCHANGED <<cpc, n_collections, input_exists, documents, persona, task,
                   ranked_sections, extracted_sections, subsection_analysis,
                   coll_result, saved>>
    /\ UNCHANGED <<varsPdf, varsCall>>

\* the ranking run inside the document loop, on the pool gathered so far
RankSections_Early ==
    /\ cpc = "documents"
    /\ doc_idx <= Len(documents)
    /\ ranked_sections' = rank_sections_by_importance(all_sections, persona, task)
    /\ cpc' = "ranked"
    /\ UNCHANGED <<n_collections, input_exists, documents, persona, task, doc_idx,
                   all_sections, processing_log, error_log, extracted_sections,
                   subsection_analysis, coll_result, saved>>
    /\ UNCHANGED <<varsPdf, varsCall>>

\* process_collection: after the loop, rank the pool
RankSections ==
    /\ cpc = "documents"
    /\ doc_idx = Len(documents)
    /\ ranked_sections' = rank_sections_by_importance(all_sections, persona, task)
    /\ cpc' = "ranked"
    /\ UNCHANGED <<n_collections, input_exists, documents, persona, task, doc_idx,
                   all_sections, processing_log, error_log, extracted_sections,
                   subsection_analysis, coll_result, saved>>
    /\ UNCHANGED <<varsPdf, varsCall>>

\* metadata listing only the documents that were found and processed
AssembleOutput_ListsProcessed ==
    /\ cpc = "ranked"
    /\ extracted_sections' = extracted_entries(ranked_sections)
    /\ subsection_analysis' = subsection_entries(ranked_sections)
    /\ coll_result' = << [metadata |-> [input_documents      |-> processing_log,
                                        persona              |-> persona,
                                        job_to_be_done       |-> task,
                                        processing_timestamp |-> "now"],
                          extracted_sections  |-> extracted_sections',
                          subsection_analysis |-> subsection_analysis'] >>
    /\ cpc' = "returned"
    /\ UNCHANGED <<n_collections, input_exists, documents, persona, task, doc_idx,
                   all_sections, processing_log, error_log, ranked_sections, saved>>
    /\ UNCHANGED <<varsPdf, varsCall>>

\* process_collection: the top 10 become extracted_sections, the top 15
\* subsection_analysis, and the output is returned
AssembleOutput ==
    /\ cpc = "ranked"
    /\ extracted_sections' = extracted_entries(ranked_sections)
    /\ subsection_analysis' = subsection_entries(ranked_sections)
    /\ coll_result' = << [metadata |-> [input_documents      |-> documents,
                                        persona              |-> persona,
                                        job_to_be_done       |-> task,
                                        processing_timestamp |-> "now"],
                          extracted_sections  |-> extracted_sections',
                          subsection_analysis |-> subsection_analysis'] >>
    /\ cpc' = "returned"
    /\ UNCHANGED <<n_collections, input_exists, documents, persona, task, doc_idx,
                   all_sections, processing_log, error_log, ranked_sections, saved>>
    /\ UNCHANGED <<varsPdf, varsCall>>

\* process_all_collections: json.dump(result, f) into challenge1b_output.json;
\* the locals of the finished call are gone
SaveOutput ==
    /\ cpc = "returned"
    /\ saved' = Append(saved, IF "error" \in DOMAIN coll_result[1]
                              THEN "error" ELSE "analysis")
    /\ cpc' = "loop"
    /\ input_exists' = FALSE
    /\ documents' = <<>>
    /\ persona' = ""
    /\ task' = ""
    /\ doc_idx' = 0
    /\ all_sections' = <<>>
    /\ processing_log' = <<>>
    /\ error_log' = {}
    /\ ranked_sections' = <<>>
    /\ extracted_sections' = <<>>
    /\ subsection_analysis' = <<>>
    /\ coll_result' = <<>>
    /\ UNCHANGED n_collections
    /\ UNCHANGED <<varsPdf, varsCall>>

\* process_all_collections: the loop is over
Finish ==
    /\ cpc = "loop"
    /\ Len(saved) = n_collections
    /\ cpc' = "finished"
    /\ UNCHANGED <<n_collections, input_exists, documents, persona, task, doc_idx,
                   all_sections, processing_log, error_log, ranked_sections,
                   extracted_sections, subsection_analysis, coll_result, saved>>
    /\ UNCHANGED <<varsPdf, varsCall>>

NextCollections ==
    \/ StartCollection
    \/ InputMissing
    \/ ReadInput
    \/ DocumentMissing
    \/ ProcessDocument
    \/ RankSections
    \/ AssembleOutput
    \/ SaveOutput
    \/ Finish

(***************************************************************************)
(* The specifications: one document through process_pdf, a run of          *)
(* process_all_collections, and such a run over a single collection.       *)
(***************************************************************************)
SpecPdf == InitPdf /\ [][NextPdf]_vars

SpecAllCollections == InitAllCollections /\ [][NextCollections]_vars

\* a run that finds one collection directory
InitCollection == InitAllCollections /\ n_collections = 1

SpecCollection == InitCollection /\ [][NextCollections]_vars


(***************************************************************************)
(* Single calls of the methods, on arguments a caller may pass.  The       *)
(* processors keep no state between calls, so any call may follow any.     *)
(***************************************************************************)
\* texts for calculate_persona_relevance
TxtVegetarianBuffetMenu == <<"v","e","g","e","t","a","r","i","a","n"," ","b","u","f","f","e","t"," ","m","e","n","u">>
TxtVegetarianMixedCase == <<"A"," ","V","e","g","e","t","a","r","i","a","n"," ","B","U","F","F","E","T"," ","M","e","n","u">>
TxtShrimpReformed == <<"s","h","r","i","m","p"," ","r","e","f","o","r","m","e","d">>
TxtNoKeyword == <<"x","y","z">>

\* the three keywords in a text of exactly 100 characters, and of 102
TxtMenu100 == TxtVegetarianBuffetMenu \o Repeat(<<" ","z">>, 39)
TxtMenu102 == TxtVegetarianBuffetMenu \o Repeat(<<" ","z">>, 40)

RECURSIVE JoinWords(_)
JoinWords(words) ==
    IF words = <<>> THEN <<>>
    ELSE IF Len(words) = 1 THEN Head(words)
    ELSE Head(words) \o <<" ">> \o JoinWords(Tail(words))

\* every keyword of the Food Contractor in one text
TxtAllFoodKeywords == JoinWords(FoodContractorKeywords)

RelevanceTexts == {<<>>, TxtVegetarianBuffetMenu, TxtVegetarianMixedCase, TxtShrimpReformed,
                   TxtNoKeyword, TxtMenu100, TxtMenu102, TxtAllFoodKeywords}

\* persona labels, labels that are no key of persona_keywords, a task string
Labels == PersonaNames \cup {"", "Pilot", "food contractor", "Prepare a vegetarian buffet"}

InitCalls ==
    /\ call = "none"
    /\ args = <<>>
    /\ ret = <<>>
    \* process_pdf is not running
    /\ pc = "start"
    /\ num_pages = 0
    /\ page_num = 0
    /\ text_blocks = <<>>
    /\ headings = <<>>
    /\ title = <<>>
    /\ outline = <<>>
    /\ result = <<>>
    \* process_all_collections is not running
    /\ cpc = "loop"
    /\ n_collections = 0
    /\ input_exists = FALSE
    /\ documents = <<>>
    /\ persona = ""
    /\ task = ""
    /\ doc_idx = 0
    /\ all_sections = <<>>
    /\ processing_log = <<>>
    /\ error_log = {}
    /\ ranked_sections = <<>>
    /\ extracted_sections = <<>>
    /\ subsection_analysis = <<>>
    /\ coll_result = <<>>
    /\ saved = <<>>

\* processor.calculate_persona_relevance(text, label)
CallRelevance ==
    /\ \E text \in RelevanceTexts, label \in Labels :
          /\ call' = "calculate_persona_relevance"
          /\ args' = <<text, label>>
          /\ ret' = << calculate_persona_relevance(text, label) >>
    /\ UNCHANGED <<varsPdf, varsCollection>>

\* blocks for calculate_heading_confidence: the sizes around the two
\* thresholds, texts with and without a pattern and of length 2, 3, 100, 101
\* and 150, positions around 30% of a page 800 high
ConfidenceSizes == {10, 12, 13, 14, 15, 18}
TxtCaps100 == Repeat(<<"A">>, 100)
TxtCaps101 == Repeat(<<"A">>, 101)
ConfidenceTexts == {TxtAB, TxtDots, TxtIntroduction, TxtNumbered, TxtFooter,
                    TxtCaps100, TxtCaps101, TxtBody}
ConfidenceTops == {0, 239, 240, 600}

\* a block as extract_text_with_positions builds it
ConfidenceBlock(text, size, bold, y0) ==
    [text      |-> text,
     page      |-> 1,
     font_size |-> size,
     font_flags |-> IF bold THEN 16 ELSE 0,
     bbox      |-> <<72, y0, 300, y0 + 20>>,
     is_bold   |-> bold,
     is_italic |-> FALSE]

ConfidenceBlocks ==
    {ConfidenceBlock(text, size, bold, y0) :
        text \in ConfidenceTexts, size \in ConfidenceSizes,
        bold \in BOOLEAN, y0 \in ConfidenceTops}

\* the last block of the page, which ends at 800
PageEnd == ConfidenceBlock(TxtFooter, 10, FALSE, 780)

\* the confidence of every block, computed once
confidence_of ==
    [block \in ConfidenceBlocks |->
        calculate_heading_confidence(block, <<block, PageEnd>>)] @@ <<>>

\* processor.calculate_heading_confidence(block, page_blocks)
CallConfidence ==
    /\ \E block \in ConfidenceBlocks :
          /\ call' = "calculate_heading_confidence"
          /\ args' = <<block, <<block, PageEnd>> >>
          /\ ret' = << confidence_of[block] >>
    /\ UNCHANGED <<varsPdf, varsCollection>>

\* sections for rank_sections_by_importance: body text, a heading, a
\* section of no text and one of blanks only
RankSection(text, sizes, is_heading) ==
    [text |-> text, page |-> 1, font_sizes |-> sizes, is_heading |-> is_heading,
     document |-> "guide.pdf"]

SecLunch == RankSection(TxtLunch, <<10>>, FALSE)
SecMenu == RankSection(TxtMenu, <<18>>, TRUE)
SecDishes == RankSection(TxtDishes, <<10, 10>>, FALSE)
SecEmpty == RankSection(<<>>, <<>>, FALSE)
SecBlank == RankSection(TxtBlank, <<10>>, FALSE)

RankPool == {SecLunch, SecMenu, SecDishes, SecEmpty, SecBlank}

\* the lists of up to two sections, and one of every section
RankInputs ==
    SeqsUpTo(RankPool, 2) \cup {<<SecEmpty, SecLunch, SecBlank, SecMenu, SecLunch, SecDishes>>}

RankCalls == RankInputs \X Personas \X Tasks

\* the ranking of every input, computed once
ranking_of ==
    [c \in RankCalls |-> rank_sections_by_importance(c[1], c[2], c[3])] @@ <<>>

\* processor.rank_sections_by_importance(sections, persona, task); ret is the
\* returned list and the list the caller passed as the call leaves it: the
\* loop only reads section and builds each entry as a new dict
CallRank ==
    /\ \E c \in RankCalls :
          /\ call' = "rank_sections_by_importance"
          /\ args' = c
          /\ ret' = << ranking_of[c], c[1] >>
    /\ UNCHANGED <<varsPdf, varsCollection>>

\* texts for refine_text_for_subsection
TxtLunchPage == TxtLunch \o <<" ", " ", "1", "2", " ">>
\* 2000 characters without . ! ?
TxtPlain2000 == Fill(<<"a","b","c","d"," ">>, 1999) \o <<"e">>
\* 2001 characters that clean to 1596: doubled blanks and a page number
TxtSpaced2001 == Fill(<<"a","b","c"," "," ">>, 1995) \o <<" ", "1", "2", "3", "4", " ">>
\* 41 sentences of 50 characters
TxtSentences == Fill(<<"S","o","m","e"," ","d","i","s","h","!","?"," ">> \o Fill(<<"w","o","r","d"," ">>, 36) \o <<".", " ">>, 2050)
\* a sentence of 1999 characters and one of 2000, each followed by more text
TxtSentence1999 == Fill(<<"a">>, 1999) \o <<".", " ", "b", "c">>
TxtSentence2000 == Fill(<<"a">>, 2000) \o <<".", " ", "b", "c">>

RefineTexts == {<<>>, TxtBlank, TxtYear, TxtLunch, TxtLunchPage, TxtDishes,
                TxtPlain2000, TxtPlain2001, TxtSpaced2001, TxtSentences,
                TxtSentence1999, TxtSentence2000}

\* the refined text of every input, computed once
refined_of == [text \in RefineTexts |-> refine_text_for_subsection(text)] @@ <<>>

\* processor.refine_text_for_subsection(text)
CallRefine ==
    /\ \E text \in RefineTexts :
          /\ call' = "refine_text_for_subsection"
          /\ args' = <<text>>
          /\ ret' = << refined_of[text] >>
    /\ UNCHANGED <<varsPdf, varsCollection>>

\* spans for extract_sections_from_pdf: body text, a 13-point title-case
\* word, a bold heading, a numbered heading, a span of blanks
SegmentSpans == {
    RawSpan(TxtLunch, 10, 0, 80, 90),
    RawSpan(TxtSummary, 13, 0, 100, 113),
    RawSpan(TxtBuffet, 12, 16, 200, 212),
    RawSpan(TxtCatering, 10, 0, 300, 310),
    RawSpan(TxtBlank, 10, 0, 120, 130) }

\* the pages that decode, of up to MaxSpans spans
SegmentPages == {[ok |-> TRUE, raw |-> raw] : raw \in SeqsUpTo(SegmentSpans, MaxSpans)}

\* the documents of one page, and those of two pages of at most one span
SegmentDocs ==
    {[opens |-> TRUE, pages |-> <<pg>>] : pg \in SegmentPages}
    \cup {[opens |-> TRUE, pages |-> <<pg, qg>>] :
             pg, qg \in {x \in SegmentPages : Len(x.raw) <= 1}}

\* the sections of every document, computed once
segments_of == [doc \in SegmentDocs |-> extract_sections_from_pdf(doc)] @@ <<>>

\* processor.extract_sections_from_pdf(pdf_path), the file holding doc
CallExtractSections ==
    /\ \E doc \in SegmentDocs :
          /\ call' = "extract_sections_from_pdf"
          /\ args' = <<doc>>
          /\ ret' = << segments_of[doc] >>
    /\ UNCHANGED <<varsPdf, varsCollection>>

\* blocks for identify_headings, each a heading: two texts on page 1 and on
\* page 2, a third on page 1; a text has the same vertical position wherever
\* it stands
IdentifyBlock(text, size, bold, y0, page) ==
    [ConfidenceBlock(text, size, bold, y0) EXCEPT !.page = page]

IdentifyBlocks == {
    IdentifyBlock(TxtIntroduction, 18, TRUE, 40, 1),
    IdentifyBlock(TxtIntroduction, 18, TRUE, 40, 2),
    IdentifyBlock(TxtNumbered, 18, FALSE, 100, 1),
    IdentifyBlock(TxtNumbered, 18, FALSE, 100, 2),
    IdentifyBlock(TxtBuffet, 12, TRUE, 200, 1) }

\* the lists of up to MaxSpans blocks, in any order of page and position
IdentifyInputs == SeqsUpTo(IdentifyBlocks, MaxSpans)

\* the headings of every list, computed once
headings_of == [blocks \in IdentifyInputs |-> identify_headings(blocks)] @@ <<>>

\* processor.identify_headings(text_blocks)
CallIdentify ==
    /\ \E blocks \in IdentifyInputs :
          /\ call' = "identify_headings"
          /\ args' = <<blocks>>
          /\ ret' = << headings_of[blocks] >>
    /\ UNCHANGED <<varsPdf, varsCollection>>

NextCalls ==
    \/ CallRelevance
    \/ CallConfidence
    \/ CallRank
    \/ CallRefine
    \/ CallExtractSections
    \/ CallIdentify

SpecCalls == InitCalls /\ [][NextCalls]_vars


(***************************************************************************)
(* Properties of the single-document path (SpecPdf).                       *)
(***************************************************************************)
HeadingsKnown == pc \in {"identified", "titled", "refined", "done"}

TitleKnown == pc \in {"titled", "refined"} \/ (pc = "done" /\ text_blocks # <<>>)

OutlineKnown == pc = "refined" \/ (pc = "done" /\ text_blocks # <<>>)

\* C1: identify_headings never emits a Heading whose text has fewer than 3
\* characters or whose lower-cased text is 'page', 'continued' or '...',
\* whatever the font size, the boldness, the position or the next span.
C1_NoTrivialHeading ==
    HeadingsKnown =>
        \A k \in 1..Len(headings) :
            /\ Len(headings[k].text) >= 3
            /\ lower(headings[k].text) \notin Noise

\* a trivial span with every signal on: large bold font, first on its page,
\* followed by a smaller span of more than 20 characters
C1_Witness ==
    /\ pc = "identified"
    /\ Len(text_blocks) = 2
    /\ lower(text_blocks[1].text) \in Noise
    /\ text_blocks[1].font_size > 16
    /\ text_blocks[1].is_bold
    /\ text_blocks[2].page = text_blocks[1].page
    /\ text_blocks[2].bbox[2] > text_blocks[1].bbox[2]
    /\ text_blocks[2].font_size < text_blocks[1].font_size
    /\ Len(text_blocks[2].text) > 20

\* what qualifies a span in the fallback scan: more than 5 characters, not all
\* digits, not starting with "page" or "continued" in any case
C4_Qualifies(text) ==
    /\ Len(text) > 5
    /\ \E i \in 1..Len(text) : text[i] \notin Digit
    /\ Len(text) < 4 \/ lower(SubSeq(text, 1, 4)) # <<"p","a","g","e">>
    /\ Len(text) < 9 \/ lower(SubSeq(text, 1, 9)) # <<"c","o","n","t","i","n","u","e","d">>

C4_H1s == {k \in 1..Len(headings) : headings[k].level = "H1"}

C4_Fallbacks == {k \in 1..Len(text_blocks) : C4_Qualifies(text_blocks[k].text)}

\* C4: extract_title returns a non-empty string for every input: the sentinel
\* "Untitled Document" for zero spans or when neither an H1 heading nor a
\* qualifying span exists, the (truncated) text of the first qualifying span
\* when there are spans but no H1 heading, and the first H1 heading's text
\* otherwise.
C4_TitleNeverEmpty ==
    TitleKnown =>
        /\ Len(title) > 0
        /\ text_blocks = <<>> => title = UntitledDocument
        /\ text_blocks # <<>> /\ C4_H1s # {} =>
              title = headings[CHOOSE k \in C4_H1s : \A j \in C4_H1s : k <= j].text
        /\ text_blocks # <<>> /\ C4_H1s = {} /\ C4_Fallbacks # {} =>
              LET k == CHOOSE i \in C4_Fallbacks : \A j \in C4_Fallbacks : i <= j
              IN  /\ Len(title) <= 100
                  /\ title = SubSeq(text_blocks[k].text, 1, Len(title))
                  /\ Len(title) = Min2(100, Len(text_blocks[k].text))
        /\ text_blocks # <<>> /\ C4_H1s = {} /\ C4_Fallbacks = {} =>
              title = UntitledDocument

\* spans exist, no heading is H1, and the fallback scan passes over a purely
\* numeric span before it finds the title, which it truncates
C4_Witness ==
    /\ pc = "titled"
    /\ Len(text_blocks) = 2
    /\ C4_H1s = {}
    /\ isdigit(text_blocks[1].text)
    /\ Len(text_blocks[1].text) > 5
    /\ Len(text_blocks[2].text) > 100
    /\ Len(title) = 100

\* C5: the outline is exactly the sub-sequence of the headings whose
\* confidence is at least 0.3, in the same order, each with its level, text
\* and page unchanged.
C5_OutlineIsConfidenceFilter ==
    OutlineKnown =>
        LET kept == SelectSeq(headings, LAMBDA h : h.confidence >= 3)
        IN  /\ Len(outline) = Len(kept)
            /\ \A k \in 1..Len(kept) :
                  /\ outline[k].level = kept[k].level
                  /\ outline[k].text = kept[k].text
                  /\ outline[k].page = kept[k].page

\* one heading below 0.3 is dropped, one at exactly 0.3 is kept
C5_Witness ==
    /\ pc = "refined"
    /\ Len(headings) = 2
    /\ headings[1].confidence < 3
    /\ headings[2].confidence = 3
    /\ Len(outline) = 1
    /\ outline[1].text = headings[2].text

\* C8: process_pdf returns a record with a title and an outline; when no span
\* could be extracted it is the degraded record, the fixed sentinel title
\* with an empty outline.
C8_DegradedResult ==
    pc = "done" =>
        /\ Len(result) = 1
        /\ DOMAIN result[1] = {"title", "outline"}
        /\ Len(result[1].title) > 0
        /\ text_blocks = <<>> =>
              /\ result[1].title = ErrorNoText
              /\ result[1].outline = <<>>
        /\ text_blocks # <<>> =>
              /\ result[1].title = title
              /\ result[1].outline = outline

\* the document could not be opened, or no page of it gave a span
C8_Witness ==
    /\ pc = "done"
    /\ text_blocks = <<>>
    /\ result = << [title |-> ErrorNoText, outline |-> <<>>] >>


(***************************************************************************)
(* Properties of the collection path (SpecCollection, SpecAllCollections). *)
(***************************************************************************)
\* process_collection has ranked the pool: ranked_sections is set
Ranked == cpc = "ranked" \/ (cpc = "returned" /\ input_exists)

\* the ranked section r is the pooled section s with its scores added
SameSection(r, s) ==
    /\ r.text = s.text
    /\ r.page = s.page
    /\ r.font_sizes = s.font_sizes
    /\ r.is_heading = s.is_heading
    /\ r.document = s.document

\* the place in the pool of the i-th ranked section
PoolIndex(i) ==
    CHOOSE k \in 1..Len(all_sections) : SameSection(ranked_sections[i], all_sections[k])

\* C2: the ranker's output is sorted descending by importance_score, and two
\* sections with identical scores keep the relative order they had in the
\* input pool.
C2_SortedDescendingStable ==
    Ranked =>
        /\ \A i \in 1..Len(ranked_sections) :
              \E k \in 1..Len(all_sections) :
                  SameSection(ranked_sections[i], all_sections[k])
        /\ \A i, j \in 1..Len(ranked_sections) :
              i < j =>
                /\ ~RatLess(ranked_sections[i].importance_score,
                            ranked_sections[j].importance_score)
                /\ ranked_sections[i].importance_score = ranked_sections[j].importance_score
                      => PoolIndex(i) < PoolIndex(j)

\* a ranking with a tie, and with a section the sort has moved ahead of one
\* that stood before it in the pool
C2_Witness ==
    /\ cpc = "ranked"
    /\ \E i, j \in 1..Len(ranked_sections) :
          /\ i < j
          /\ ranked_sections[i].importance_score = ranked_sections[j].importance_score
    /\ \E i, j \in 1..Len(ranked_sections) :
          /\ i < j
          /\ RatLess(ranked_sections[j].importance_score,
                     ranked_sections[i].importance_score)
          /\ PoolIndex(j) < PoolIndex(i)

\* C3: a document whose decoding fails, on any of its pages, contributes no
\* section to the pool, and the document loop still runs to its end.
C3_FailedDocumentContributesNothing ==
    /\ \A k \in 1..Len(all_sections) : all_sections[k].document \notin error_log
    /\ Ranked => doc_idx = Len(documents)

\* C6: ranking and the two selections happen only when the document loop is
\* over: whatever is ranked or emitted comes from the pool of every document.
C6_RankedFromWholePool ==
    (\/ cpc \in {"ranked", "returned"}
     \/ ranked_sections # <<>>
     \/ extracted_sections # <<>>
     \/ subsection_analysis # <<>>)
    => /\ doc_idx = Len(documents)
       /\ Len(processing_log) <= Len(documents)
       /\ Len(ranked_sections) = Len(all_sections)
       /\ \A k \in 1..Len(all_sections) :
             \E i \in 1..Len(ranked_sections) :
                 SameSection(ranked_sections[i], all_sections[k])

\* a result whose ranking holds sections of two documents
C6_Witness ==
    /\ cpc = "returned"
    /\ Len(processing_log) = 2
    /\ extracted_sections # <<>>
    /\ \E i, j \in 1..Len(ranked_sections) :
          ranked_sections[i].document # ranked_sections[j].document

\* C7: extracted_sections has at most 10 entries, subsection_analysis at most
\* 15, neither more than ranked_sections; every one of the first 15 ranked
\* sections with a non-empty refined text is in subsection_analysis.
C7_TopTenAndTopFifteen ==
    /\ Len(extracted_sections) <= 10
    /\ Len(subsection_analysis) <= 15
    /\ Len(extracted_sections) <= Len(ranked_sections)
    /\ Len(subsection_analysis) <= Len(ranked_sections)
    /\ cpc = "returned" /\ input_exists =>
          /\ Len(extracted_sections) = Min2(10, Len(ranked_sections))
          /\ \A i \in 1..Min2(15, Len(ranked_sections)) :
                LET refined_text == refine_text_for_subsection(ranked_sections[i].text)
                IN  refined_text # <<>> =>
                      \E k \in 1..Len(subsection_analysis) :
                          /\ subsection_analysis[k].document = ranked_sections[i].document
                          /\ subsection_analysis[k].page_number = ranked_sections[i].page
                          /\ subsection_analysis[k].refined_text = refined_text

\* more than 15 ranked sections: ten are extracted, more than ten analysed
C7_Witness ==
    /\ cpc = "returned"
    /\ Len(ranked_sections) > 15
    /\ Len(extracted_sections) = 10
    /\ Len(subsection_analysis) > 10

\* C9: with the configuration file absent process_collection returns
\* {"error": message}, the output is saved like any other, and the loop of
\* process_all_collections ends only when every collection has been handled.
C9_ErrorResultAndLoopGoesOn ==
    /\ cpc = "returned" /\ ~input_exists =>
          /\ DOMAIN coll_result[1] = {"error"}
          /\ ENABLED SaveOutput
    /\ cpc = "loop" /\ Len(saved) < n_collections => ENABLED StartCollection
    /\ cpc = "finished" => Len(saved) = n_collections

\* the run is over, the first collection gave the error result and the second
\* was analysed after it
C9_Witness ==
    /\ cpc = "finished"
    /\ saved = <<"error", "analysis">>

\* C10: when none of the listed documents is on disk, the pool, the
\* extracted_sections and the subsection_analysis are empty, the result is no
\* error result, and metadata lists the filenames in their input order.
C10_NoDocumentOnDisk ==
    cpc = "returned" /\ input_exists /\ processing_log = <<>> =>
        /\ all_sections = <<>>
        /\ ranked_sections = <<>>
        /\ "error" \notin DOMAIN coll_result[1]
        /\ coll_result[1].extracted_sections = <<>>
        /\ coll_result[1].subsection_analysis = <<>>
        /\ coll_result[1].metadata.input_documents = documents

\* two documents listed, neither found
C10_Witness ==
    /\ cpc = "returned"
    /\ input_exists
    /\ Len(documents) = 2
    /\ processing_log = <<>>

\* the pooled sections that carry the name of one document
PooledOf(filename) == SelectSeq(all_sections, LAMBDA x : x.document = filename)

\* the sections of the pool without their document names
Unnamed(sections) ==
    LET bare == [i \in 1..Len(sections) |->
            [text       |-> sections[i].text,
             page       |-> sections[i].page,
             font_sizes |-> sections[i].font_sizes,
             is_heading |-> sections[i].is_heading]]
    IN  SubSeq(bare, 1, Len(sections))

\* C11: what a document contributes to the pool is what the segmenter makes
\* of that document alone, whatever the other documents of the collection
\* are and wherever the document stands in the loop; the contributions lie
\* in the pool in the order the documents were processed.
C11_ContributionOfDocumentAlone ==
    /\ \A i \in 1..Len(processing_log) :
          \E doc \in Docs :
              Unnamed(PooledOf(processing_log[i])) = sections_of[doc]
    /\ \A k \in 1..Len(all_sections) :
          \E i \in 1..Len(processing_log) : all_sections[k].document = processing_log[i]
    /\ \A k, l \in 1..Len(all_sections) :
          k < l =>
            \A i, j \in 1..Len(processing_log) :
                /\ all_sections[k].document = processing_log[i]
                /\ all_sections[l].document = processing_log[j]
                => i <= j

\* two documents have been processed, a one-page document after a two-page
\* document, and each has its own sections in the pool
C11_Witness ==
    /\ cpc = "documents"
    /\ Len(processing_log) = 2
    /\ Len(PooledOf(processing_log[1])) > Len(PooledOf(processing_log[2]))
    /\ Len(PooledOf(processing_log[2])) > 0
    /\ PooledOf(processing_log[2])[1].page = 1


(***************************************************************************)
(* Properties of single calls (SpecCalls).                                 *)
(***************************************************************************)
\* C12: calculate_persona_relevance returns a value in [0,1] for every text
\* and label, and exactly 0 for a label that is no key of persona_keywords
\* (an unknown persona, a task string, the empty label).
C12_RelevanceInUnitInterval ==
    call = "calculate_persona_relevance" =>
        /\ ret[1][2] > 0
        /\ 0 <= ret[1][1]
        /\ ret[1][1] <= ret[1][2]
        /\ args[2] \notin PersonaNames => ret[1] = <<0, 1>>

\* a task string scored against a text full of keywords
C12_Witness ==
    /\ call = "calculate_persona_relevance"
    /\ args = <<TxtAllFoodKeywords, "Prepare a vegetarian buffet">>
    /\ ret = << <<0, 1>> >>

\* k occurs in t at some position, character by character
C13_Occurs(t, k) ==
    \E i \in 0..(Len(t) - Len(k)) : \A j \in 1..Len(k) : t[i + j] = k[j]

\* the number of keywords of a persona that occur in the lower-cased text
C13_Matches(text, label) ==
    Cardinality({k \in 1..Len(persona_keywords[label]) :
                    C13_Occurs(lower(text), persona_keywords[label][k])})

\* C13: for a known persona the relevance is min(1, m / |keywords| * b), m
\* the number of keywords contained in the lower-cased text, b = 1.2 for a
\* text of more than 100 characters and 1 otherwise; "vegetarian buffet
\* menu" scores 3/29 for the Food Contractor.
C13_RelevanceFormula ==
    /\ call = "calculate_persona_relevance" /\ args[2] \in PersonaNames =>
          LET m == C13_Matches(args[1], args[2])
              n == Len(persona_keywords[args[2]])
              \* m / n * b as the fraction num / den
              num == IF Len(args[1]) > 100 THEN 6 * m ELSE m
              den == IF Len(args[1]) > 100 THEN 5 * n ELSE n
          IN  IF num >= den THEN ret[1] = <<1, 1>>
              ELSE ret[1][1] * den = num * ret[1][2]
    /\ call = "calculate_persona_relevance"
          /\ args = <<TxtVegetarianBuffetMenu, "Food Contractor">>
          => ret[1] = <<3, 29>>

\* the example of the claim
C13_Witness ==
    /\ call = "calculate_persona_relevance"
    /\ args = <<TxtVegetarianBuffetMenu, "Food Contractor">>
    /\ ret = << <<3, 29>> >>

\* C14: the confidence calculate_heading_confidence returns is between 0 and
\* 1 (0 and 10 tenths), whatever the size, boldness, pattern, length and
\* position of the block.
C14_ConfidenceInUnitInterval ==
    call = "calculate_heading_confidence" => ret[1] \in 0..10

\* a block with every signal scores exactly 1, one with none scores 0
C14_Witness ==
    /\ call = "calculate_heading_confidence"
    /\ args[1] = ConfidenceBlock(TxtIntroduction, 18, TRUE, 0)
    /\ ret = <<10>>

\* the five signals of a block: size tier, bold, pattern, length, position
C15_Signals(block, page_blocks) ==
    << IF block.font_size > 14 THEN 2 ELSE IF block.font_size > 12 THEN 1 ELSE 0,
       IF block.is_bold THEN 1 ELSE 0,
       IF AnyPattern(block.text) THEN 1 ELSE 0,
       IF 3 <= Len(block.text) /\ Len(block.text) <= 100 THEN 1 ELSE 0,
       IF 10 * block.bbox[2] < 3 * Max({page_blocks[k].bbox[4] : k \in 1..Len(page_blocks)})
           THEN 1 ELSE 0 >>

C15_signals_of ==
    [block \in ConfidenceBlocks |-> C15_Signals(block, <<block, PageEnd>>)] @@ <<>>

\* C15: of two calls, the one whose block has every signal of the other and
\* possibly more (bold, a larger size tier, a pattern, a length in 3..100, a
\* position in the top 30%) does not get the lower confidence.
C15_ConfidenceMonotone ==
    [][(/\ call = "calculate_heading_confidence"
        /\ call' = "calculate_heading_confidence"
        /\ \A k \in 1..5 : C15_signals_of[args[1]][k] <= C15_signals_of[args'[1]][k])
       => ret[1] <= ret'[1]]_vars

\* a call on a block scoring 0.3 after a call on the same block not bold
C15_Witness ==
    /\ call = "calculate_heading_confidence"
    /\ args[1] = ConfidenceBlock(TxtBody, 10, TRUE, 600)
    /\ ret = <<3>>

\* the document of the example: one page, INTRODUCTION in 18pt bold followed
\* by 150 lower-case characters in 10pt
C16_Example ==
    /\ Len(text_blocks) = 2
    /\ text_blocks[1].page = 1
    /\ text_blocks[2].page = 1
    /\ text_blocks[1].text = TxtIntroduction
    /\ text_blocks[1].font_size = 18
    /\ text_blocks[1].is_bold
    /\ text_blocks[2].text = TxtBody
    /\ text_blocks[2].font_size = 10

\* C16: with spans, the title is the text of the first H1 heading in the
\* order identify_headings returns; without an H1 heading it is the first 100
\* characters of the first span, in the order of extraction, that is longer
\* than 5 characters, not all digits and not starting with page or continued.
\* In the example the title is INTRODUCTION, an H1 heading of confidence at
\* least 0.8.
C16_TitleSelection ==
    TitleKnown /\ text_blocks # <<>> =>
        /\ \A k \in 1..Len(headings) :
              /\ headings[k].level = "H1"
              /\ \A j \in 1..(k - 1) : headings[j].level # "H1"
              => title = headings[k].text
        /\ (\A h \in 1..Len(headings) : headings[h].level # "H1") =>
              \A k \in 1..Len(text_blocks) :
                 /\ C4_Qualifies(text_blocks[k].text)
                 /\ \A j \in 1..(k - 1) : ~C4_Qualifies(text_blocks[j].text)
                 => title = SubSeq(text_blocks[k].text, 1,
                                   Min2(100, Len(text_blocks[k].text)))
        /\ C16_Example =>
              /\ title = TxtIntroduction
              /\ \E k \in 1..Len(headings) :
                    /\ headings[k].text = TxtIntroduction
                    /\ headings[k].level = "H1"
                    /\ headings[k].confidence >= 8

\* the example, titled
C16_Witness ==
    /\ pc = "titled"
    /\ C16_Example
    /\ title = TxtIntroduction
    /\ headings[1].level = "H1"

\* the positions of the input sections whose trimmed text is not empty
C17_Kept(sections) ==
    {k \in 1..Len(sections) :
        \E i \in 1..Len(sections[k].text) : sections[k].text[i] \notin Whitespace}

\* C17: rank_sections_by_importance returns one entry for each input section
\* with non-blank text and none for the others; an entry has the text, page,
\* font_sizes, is_heading and document of its section and three more fields,
\* importance_score, persona_relevance and task_relevance; the list passed
\* and its sections are as they were.
C17_OneRankedPerNonBlankSection ==
    call = "rank_sections_by_importance" =>
        LET sections == args[1]
            out == ret[1]
            kept == C17_Kept(sections)
        IN  /\ Len(out) = Cardinality(kept)
            /\ \E of \in [1..Len(out) -> kept] :
                  /\ \A i, j \in 1..Len(out) : of[i] = of[j] => i = j
                  /\ \A i \in 1..Len(out) :
                        /\ DOMAIN out[i] = DOMAIN sections[of[i]]
                               \cup {"importance_score", "persona_relevance", "task_relevance"}
                        /\ \A f \in DOMAIN sections[of[i]] : out[i][f] = sections[of[i]][f]
            /\ \A k \in 1..Len(sections) :
                  DOMAIN sections[k] = {"text", "page", "font_sizes", "is_heading", "document"}
            /\ ret[2] = sections

\* six sections, two of them blank, one passed twice: four entries
C17_Witness ==
    /\ call = "rank_sections_by_importance"
    /\ Len(args[1]) = 6
    /\ Len(ret[1]) = 4
    /\ ret[1][1].text = TxtMenu

\* the text after the two substitutions: runs of whitespace collapsed, the
\* ends trimmed, a trailing number removed
C18_Cleaned(text) == strip_page_number(collapse_whitespace(text))

\* C18: refine_text_for_subsection returns at most 2000 characters for every
\* text, and returns the cleaned text itself when that has at most 2000
\* characters.
C18_RefinedAtMost2000 ==
    call = "refine_text_for_subsection" =>
        /\ Len(ret[1]) <= 2000
        /\ Len(C18_Cleaned(args[1])) <= 2000 => ret[1] = C18_Cleaned(args[1])

\* a text over the limit is cut to exactly 2000 characters
C18_Witness ==
    /\ call = "refine_text_for_subsection"
    /\ args = <<TxtSentence1999>>
    /\ Len(ret[1]) = 2000

\* a text of more than 2000 characters after cleaning and without . ! ?
C19_Unpunctuated(text) ==
    /\ Len(strip_page_number(collapse_whitespace(text))) > 2000
    /\ \A i \in 1..Len(text) : text[i] \notin {".", "!", "?"}

\* the ranked sections among the first 15 whose refined text is not empty
C19_Analysed ==
    {j \in 1..Min2(15, Len(ranked_sections)) :
        refine_text_for_subsection(ranked_sections[j].text) # <<>>}

\* C19: a section whose cleaned text has more than 2000 characters and no
\* sentence punctuation is refined to the empty text; subsection_analysis
\* has no entry for it (it holds one entry for each of the other analysed
\* sections, none with an empty text), while extracted_sections holds its
\* entry at its rank when it is among the first ten.
C19_UnpunctuatedLongSection ==
    cpc = "returned" /\ input_exists =>
        \A i \in 1..Len(ranked_sections) :
            C19_Unpunctuated(ranked_sections[i].text) =>
                /\ refine_text_for_subsection(ranked_sections[i].text) = <<>>
                /\ i \notin C19_Analysed
                /\ Len(subsection_analysis) = Cardinality(C19_Analysed)
                /\ \A k \in 1..Len(subsection_analysis) :
                      subsection_analysis[k].refined_text # <<>>
                /\ i <= 10 =>
                      /\ Len(extracted_sections) >= i
                      /\ extracted_sections[i].document = ranked_sections[i].document
                      /\ extracted_sections[i].page_number = ranked_sections[i].page
                      /\ extracted_sections[i].importance_rank = i
                      /\ SubSeq(extracted_sections[i].section_title, 1, 200)
                            = SubSeq(ranked_sections[i].text, 1, 200)

\* two documents: the long section of one is extracted but not analysed, the
\* sections of the other are analysed
C19_Witness ==
    /\ cpc = "returned"
    /\ \E i \in 1..Len(extracted_sections) :
          /\ Len(ranked_sections[i].text) > 2000
          /\ Len(extracted_sections[i].section_title) = 203
          /\ \A k \in 1..Len(subsection_analysis) :
                subsection_analysis[k].document # extracted_sections[i].document
    /\ subsection_analysis # <<>>

\* the pages that have blocks
C20_Pages == {text_blocks[k].page : k \in 1..Len(text_blocks)}

\* the first block of a page after the sort by vertical position
C20_First(page) == sorted_page_blocks(text_blocks, page)[1]

\* the position signal fires for the block and the block is not skipped
C20_FirstOnPage(block) ==
    /\ Len(block.text) > 5
    /\ \E i \in 1..Len(block.text) : block.text[i] \notin Digit
    /\ lower(block.text) # <<"c","o","n","t","i","n","u","e","d">>

\* the level by the precedence pattern, then typography, then position
C20_Level(block) ==
    IF MatchAllCaps(block.text) THEN "H1"
    ELSE IF MatchNumbered(block.text) THEN "H2"
    ELSE IF block.font_size > 16 THEN "H1"
    ELSE IF block.font_size > 14 THEN "H2"
    ELSE "H1"

\* C20: the level of a heading follows pattern, then typography, then the
\* position default: the heading of the first block of a page is H1 by its
\* position only when neither the all-caps or numbered pattern nor the font
\* size set a level, so a numbered first block of a page is an H2 heading.
C20_PatternThenTypographyThenPosition ==
    HeadingsKnown =>
        \A page \in C20_Pages :
            C20_FirstOnPage(C20_First(page)) =>
                LET k == CHOOSE i \in 1..Len(headings) :
                            /\ headings[i].page = page
                            /\ \A j \in 1..(i - 1) : headings[j].page # page
                IN  /\ headings[k].text = C20_First(page).text
                    /\ headings[k].level = C20_Level(C20_First(page))

\* the spans of a page that the span loop looks at: those with text
C21_Spans(raw) == SelectSeq(raw, LAMBDA sp : sp.lines /\ strip(sp.text) # <<>>)

\* the trigger of identify_headings: typography or any of the five patterns
C21_ClassifierTrigger(sp) ==
    \/ sp.size > 12
    \/ FlagBit(sp.flags, 4)
    \/ AnyPattern(strip(sp.text))

\* C21: extract_sections_from_pdf starts a section at a span exactly when the
\* span has a font size above 12, is bold or matches one of the five heading
\* patterns: on every page the sections that start with a heading are, in
\* order, those that start at the spans with this trigger.
C21_SegmenterUsesClassifierTrigger ==
    call = "extract_sections_from_pdf" =>
        \A page \in 1..Len(args[1].pages) :
            LET starts == SelectSeq(C21_Spans(args[1].pages[page].raw),
                                    LAMBDA sp : C21_ClassifierTrigger(sp))
                begun == SelectSeq(ret[1], LAMBDA sec : sec.page = page /\ sec.is_heading)
            IN  /\ Len(begun) = Len(starts)
                /\ \A k \in 1..Len(begun) :
                      SubSeq(begun[k].text, 1, Len(strip(starts[k].text))) = strip(starts[k].text)

\* texts joined by single blanks
RECURSIVE C22_Join(_)
C22_Join(ts) ==
    IF ts = <<>> THEN <<>>
    ELSE IF Len(ts) = 1 THEN ts[1]
    ELSE ts[1] \o <<" ">> \o C22_Join(Tail(ts))

\* the number of spans in the sections before the k-th
C22_Before(secs, k) ==
    SumSeq(SubSeq([j \in 1..Len(secs) |-> Len(secs[j].font_sizes)], 1, k - 1))

\* C22: for a document that decodes, the sections of each page divide the
\* spans with text of that page, in scan order, into consecutive non-empty
\* runs: a section's text is its spans' texts joined by blanks and its
\* font_sizes their sizes, so no span is lost, doubled or moved to another
\* page; no section has blank text; only the first section of a page can
\* have is_heading false; the sections lie in page order.
C22_SectionsPartitionSpans ==
    call = "extract_sections_from_pdf" =>
        /\ \A k \in 1..Len(ret[1]) : ret[1][k].page \in 1..Len(args[1].pages)
        /\ \A k \in 1..(Len(ret[1]) - 1) : ret[1][k].page <= ret[1][k + 1].page
        /\ \A page \in 1..Len(args[1].pages) :
              LET spans == C21_Spans(args[1].pages[page].raw)
                  secs == SelectSeq(ret[1], LAMBDA sec : sec.page = page)
              IN  /\ C22_Before(secs, Len(secs) + 1) = Len(spans)
                  /\ \A k \in 1..Len(secs) :
                        LET n == Len(secs[k].font_sizes)
                            from == C22_Before(secs, k)
                        IN  /\ n >= 1
                            /\ secs[k].font_sizes = [j \in 1..n |-> spans[from + j].size]
                            /\ secs[k].text = C22_Join([j \in 1..n |-> strip(spans[from + j].text)])
                            /\ strip(secs[k].text) # <<>>
                            /\ k > 1 => secs[k].is_heading

\* two pages of body text: one section for each page, neither a heading
C22_Witness ==
    /\ call = "extract_sections_from_pdf"
    /\ Len(args[1].pages) = 2
    /\ Len(ret[1]) = 2
    /\ ret[1][1].text = TxtLunch /\ ~ret[1][1].is_heading /\ ret[1][1].page = 1
    /\ ret[1][2].text = TxtLunch /\ ~ret[1][2].is_heading /\ ret[1][2].page = 2

\* C23: a pattern does not lower a level that typography set: a heading
\* that matches the numbered pattern, has a font size above 16 and does not
\* come from the first block of its page has level H1.
C23_PatternNeverDowngrades ==
    HeadingsKnown =>
        \A k \in 1..Len(headings) :
            /\ MatchNumbered(headings[k].text)
            /\ headings[k].font_size > 16
            /\ C20_First(headings[k].page).text # headings[k].text
            => headings[k].level = "H1"

\* the vertical position of the block a heading was made from
C24_Top(h) ==
    LET k == CHOOSE i \in 1..Len(args[1]) :
                 args[1][i].text = h.text /\ args[1][i].page = h.page
    IN  args[1][k].bbox[2]

\* C24: identify_headings returns the headings in ascending order of page
\* and, within a page, of the vertical position of their blocks, in whatever
\* order of page and position the blocks are passed; a heading has the
\* fields level, text, page, font_size and confidence and no position.
C24_HeadingsByPageThenTop ==
    call = "identify_headings" =>
        /\ Len(ret[1]) = Len(args[1])
        /\ \A k \in 1..Len(ret[1]) :
              DOMAIN ret[1][k] = {"level", "text", "page", "font_size", "confidence"}
        /\ \A k \in 1..(Len(ret[1]) - 1) :
              \/ ret[1][k].page < ret[1][k + 1].page
              \/ /\ ret[1][k].page = ret[1][k + 1].page
                 /\ C24_Top(ret[1][k]) <= C24_Top(ret[1][k + 1])

\* a block of page 2 passed before a block of page 1 that stands higher
C24_Witness ==
    /\ call = "identify_headings"
    /\ Len(args[1]) = 2
    /\ args[1][1].page = 2 /\ args[1][1].text = TxtNumbered
    /\ args[1][2].page = 1 /\ args[1][2].text = TxtIntroduction
    /\ ret[1][1].page = 1 /\ ret[1][1].text = TxtIntroduction
    /\ ret[1][2].page = 2 /\ ret[1][2].text = TxtNumbered

====
